---- MODULE Spec2Model ----
(***************************************************************************)
(* PyramidKVCluster (MInference/minference/modules/pyramidkv.py): the      *)
(* configuration holder (__init__, reset) and the prefill-time KV-cache    *)
(* compression update_kv, for one batch element and one key/value head.    *)
(*                                                                         *)
(* A tensor along the sequence axis is a sequence of entries; Python       *)
(* position p (0-based) is element p + 1.  The float attention scores are  *)
(* an input of the call: attn_weights_sum is drawn from small integers,    *)
(* one row per query head of the group, and pooling, the group mean, topk, *)
(* sort and gather are computed on it as the code computes them.           *)
(***************************************************************************)
EXTENDS Integers, Sequences, FiniteSets, TLC

VARIABLES self, key_states, value_states, pc, op, raised, reset_args, ret

vars == <<self, key_states, value_states, pc, op, raised, reset_args, ret>>

\* ---------------------------------------------------------------- bounds
MaxCapacity == 4
MaxQLen == 5
MaxLayers == 3

\* Python's None, for n_rep, capacity_override and locals never assigned.
None == -1

WindowSizes == {1, 2, 3}
Capacities == 1..MaxCapacity
KernelSizes == {1, 3}
Poolings == {"avgpool", "maxpool", "sumpool"}
NReps == {None, 2}
Overrides == {None} \cup Capacities
Betas == {1, 2}
ScoreValues == {0, 1}

\* ------------------------------------------------------- Python helpers
Min(a, b) == IF a <= b THEN a ELSE b

Max(a, b) == IF a >= b THEN a ELSE b

\* a // b for b > 0: the floor, also of a negative a.
FloorDiv(a, b) == a \div b

\* The slice one entry short: seq[-(w - 1):], nothing for w = 1.
SliceLastOneLess(seq, w) ==
    LET n == Len(seq)
        m == IF n <= w - 1 THEN n ELSE w - 1
    IN  [j \in 1..m |-> seq[n - m + j]]

\* seq[-w:] along the sequence axis, w >= 1: the trailing w entries, or all
\* of them when there are fewer.
SliceLast(seq, w) ==
    LET n == Len(seq)
        m == Min(n, w)
    IN  [j \in 1..m |-> seq[n - m + j]]

\* seq[:-w] along the sequence axis, w >= 1: all but the trailing w entries.
SliceHistory(seq, w) ==
    LET n == Len(seq)
        m == Max(n - w, 0)
    IN  [j \in 1..m |-> seq[j]]

\* The window put in front of the selected history.
CatSwapped(a, b) == b \o a

\* torch.cat([a, b], dim=2)
Cat(a, b) == a \o b

\* ----------------------------------------------------------- __init__
CtorArgs ==
    [num_hidden_layers : 1..MaxLayers, window_size : WindowSizes,
     max_capacity_prompt : Capacities, kernel_size : KernelSizes,
     pooling : Poolings, beta : Betas, layer_idx : 0..(MaxLayers - 1),
     n_rep : NReps]

\* __init__: the instance it leaves, and whether its assertion held (when it
\* did not, the constructor raises and no instance exists).
PyramidKVCluster(a) ==
    [ok   |-> a.max_capacity_prompt - a.window_size > 0,
     self |-> [layer_idx |-> a.layer_idx,
               num_hidden_layers |-> a.num_hidden_layers,
               steps |-> -1,
               beta |-> a.beta,
               window_size |-> a.window_size,
               max_capacity_prompt |-> a.max_capacity_prompt,
               kernel_size |-> a.kernel_size,
               pooling |-> a.pooling,
               n_rep |-> a.n_rep]]

\* ---------------------------------------------------------------- reset
ResetArgs ==
    [window_size : WindowSizes, max_capacity_prompt : Capacities,
     kernel_size : KernelSizes, pooling : Poolings, n_rep : NReps]

NoArgs ==
    [window_size |-> None, max_capacity_prompt |-> None, kernel_size |-> None,
     pooling |-> "None", n_rep |-> None]

\* reset: the two assignments before the assertion always happen; the three
\* after it only when it holds.
reset(s, a) ==
    LET s1 == [s EXCEPT !.window_size = a.window_size,
                        !.max_capacity_prompt = a.max_capacity_prompt]
        ok == s1.max_capacity_prompt - s1.window_size > 0
    IN  [raised |-> IF ok THEN "None" ELSE "AssertionError",
         self   |-> IF ok
                    THEN [s1 EXCEPT !.kernel_size = a.kernel_size,
                                    !.pooling = a.pooling,
                                    !.n_rep = a.n_rep]
                    ELSE s1]

\* ------------------------------------------------------------ update_kv
\* The regime thresholds of the if / elif / else chain.
\* The passthrough threshold one too low.
IsPassthroughOneLess(q_len, current_max_capacity) == q_len < current_max_capacity - 1

IsPassthrough(q_len, current_max_capacity) == q_len < current_max_capacity

\* The MODERATE threshold taken inclusive.
IsModerateInclusive(s, q_len, current_max_capacity) ==
    q_len <= (current_max_capacity - s.window_size) * 2

IsModerate(s, q_len, current_max_capacity) ==
    q_len < (current_max_capacity - s.window_size) * 2

\* The schedule without the clamp of max_num to the available history.
ScheduleNoClamp(s, current_max_capacity, q_len) ==
    LET d    == current_max_capacity - s.window_size
        min_num == FloorDiv(d, s.beta)
        max_num == d * 2 - min_num
    IN  IF s.num_hidden_layers - 1 = 0
        THEN [raised |-> "ZeroDivisionError", min_num |-> min_num,
              max_num |-> max_num, steps |-> None,
              max_capacity_prompt |-> None]
        ELSE LET steps == FloorDiv(max_num - min_num, s.num_hidden_layers - 1)
             IN  [raised |-> "None", min_num |-> min_num, max_num |-> max_num,
                  steps |-> steps,
                  max_capacity_prompt |-> max_num - s.layer_idx * steps]

\* The schedule with the step added per layer instead of subtracted.
ScheduleStepsAdded(s, current_max_capacity, q_len) ==
    LET d    == current_max_capacity - s.window_size
        min0 == FloorDiv(d, s.beta)
        max0 == d * 2 - min0
        clamp == max0 >= q_len - s.window_size
        max_num == IF clamp THEN q_len - s.window_size ELSE max0
        min_num == IF clamp THEN d * 2 - max_num ELSE min0
    IN  IF s.num_hidden_layers - 1 = 0
        THEN [raised |-> "ZeroDivisionError", min_num |-> min_num,
              max_num |-> max_num, steps |-> None,
              max_capacity_prompt |-> None]
        ELSE LET steps == FloorDiv(max_num - min_num, s.num_hidden_layers - 1)
             IN  [raised |-> "None", min_num |-> min_num, max_num |-> max_num,
                  steps |-> steps,
                  max_capacity_prompt |-> min_num + s.layer_idx * steps]

\* min_num, max_num, steps and the local max_capacity_prompt (the layer
\* budget), computed before the regime is looked at.  steps divides by
\* num_hidden_layers - 1 and raises when that is zero.
Schedule(s, current_max_capacity, q_len) ==
    LET d    == current_max_capacity - s.window_size
        min0 == FloorDiv(d, s.beta)
        max0 == d * 2 - min0
        clamp == max0 >= q_len - s.window_size
        max_num == IF clamp THEN q_len - s.window_size ELSE max0
        min_num == IF clamp THEN d * 2 - max_num ELSE min0
    IN  IF s.num_hidden_layers - 1 = 0
        THEN [raised |-> "ZeroDivisionError", min_num |-> min_num,
              max_num |-> max_num, steps |-> None,
              max_capacity_prompt |-> None]
        ELSE LET steps == FloorDiv(max_num - min_num, s.num_hidden_layers - 1)
             IN  [raised |-> "None", min_num |-> min_num, max_num |-> max_num,
                  steps |-> steps,
                  max_capacity_prompt |-> max_num - s.layer_idx * steps]

RECURSIVE SumRange(_, _, _)
\* x[lo] + ... + x[hi], positions outside the sequence counting as the zero
\* padding.
SumRange(x, lo, hi) ==
    IF lo > hi THEN 0
    ELSE (IF lo >= 1 /\ lo <= Len(x) THEN x[lo] ELSE 0) + SumRange(x, lo + 1, hi)

RECURSIVE MaxRange(_, _, _)
\* max(x[lo], ..., x[hi]) over the positions inside the sequence (the padding
\* of max_pool1d is minus infinity); None when there is none.
MaxRange(x, lo, hi) ==
    IF lo > hi THEN None
    ELSE LET rest == MaxRange(x, lo + 1, hi)
         IN  IF lo >= 1 /\ lo <= Len(x) THEN Max(x[lo], rest) ELSE rest

\* Output length of a stride-1 pooling with padding kernel_size // 2.
PoolLen(n, kernel_size) == n + 2 * (kernel_size \div 2) - kernel_size + 1

\* F.avg_pool1d(x, kernel_size, padding=kernel_size // 2, stride=1), times
\* kernel_size: the padded window's sum (pad positions are counted).
avg_pool1d(x, kernel_size) ==
    LET p == kernel_size \div 2
    IN  [j \in 1..PoolLen(Len(x), kernel_size) |->
            SumRange(x, j - p, j - p + kernel_size - 1)]

\* F.max_pool1d(x, kernel_size, padding=kernel_size // 2, stride=1)
max_pool1d(x, kernel_size) ==
    LET p == kernel_size \div 2
    IN  [j \in 1..PoolLen(Len(x), kernel_size) |->
            MaxRange(x, j - p, j - p + kernel_size - 1)]

\* The pooling branch on the score row of one query head.
Pool(s, attn_weights_sum) ==
    IF s.pooling = "avgpool"
    THEN avg_pool1d(attn_weights_sum, s.kernel_size)
    ELSE max_pool1d(attn_weights_sum, s.kernel_size)

RECURSIVE RowSum(_, _, _)
RowSum(rows, r, j) == IF r = 0 THEN 0 ELSE rows[r][j] + RowSum(rows, r - 1, j)

\* attn_cache.view(bsz, num_kv_heads, n_rep, l).mean(dim=2), times n_rep:
\* the pooled scores of the n_rep query heads of the group, added up.
\* Without n_rep the single head's row is the score.
GroupMean(s, pooled) ==
    IF s.n_rep = None THEN pooled[1]
    ELSE [j \in 1..Len(pooled[1]) |-> RowSum(pooled, s.n_rep, j)]

\* attn_weights_sum of one query head: a score per historical position.
ScoreRow(l) == [1..l -> ScoreValues]

\* The attn_cache rows a call may see: every query head of the group pooled
\* on its own, then the group reduced.
AttnCaches(s, l) ==
    LET heads == 1..(IF s.n_rep = None THEN 1 ELSE s.n_rep)
        pooled == {Pool(s, a) : a \in ScoreRow(l)}
    IN  {GroupMean(s, rows) : rows \in [heads -> pooled]}

\* topk taking one position too many.
TopKSetsOneMore(attn_cache, k) ==
    LET all == 0..(Len(attn_cache) - 1)
        k1  == IF k + 1 <= Len(attn_cache) THEN k + 1 ELSE k
    IN  {S \in SUBSET all :
            /\ Cardinality(S) = k1
            /\ \A i \in S : \A j \in all \ S :
                  attn_cache[i + 1] >= attn_cache[j + 1]}

\* The index sets topk may return: k positions (0-based) none of which
\* scores below a position left out; ties are the implementation's choice.
TopKSets(attn_cache, k) ==
    LET all == 0..(Len(attn_cache) - 1)
    IN  {S \in SUBSET all :
            /\ Cardinality(S) = k
            /\ \A i \in S : \A j \in all \ S :
                  attn_cache[i + 1] >= attn_cache[j + 1]}

RECURSIVE TopKOrder(_, _)
\* topk(...).indices for the chosen set: by descending score; among equal
\* scores the later position first.
TopKOrder(attn_cache, S) ==
    IF S = {} THEN <<>>
    ELSE LET best == CHOOSE i \in S : \A j \in S :
                        \/ attn_cache[i + 1] > attn_cache[j + 1]
                        \/ attn_cache[i + 1] = attn_cache[j + 1] /\ i >= j
         IN  <<best>> \o TopKOrder(attn_cache, S \ {best})

\* The sort left out: topk's order kept.
NoSort(seq) == seq

RECURSIVE SortAsc(_)
\* indices.sort(dim=-1)[0]
SortAsc(seq) ==
    IF Len(seq) = 0 THEN <<>>
    ELSE LET m == CHOOSE i \in 1..Len(seq) : \A j \in 1..Len(seq) : seq[i] <= seq[j]
         IN  <<seq[m]>> \o
             SortAsc([j \in 1..(Len(seq) - 1) |-> IF j < m THEN seq[j] ELSE seq[j + 1]])

\* tensor[:, :, : -window_size, :].gather(dim=2, index=indices)
Gather(past, indices) == [j \in 1..Len(indices) |-> past[indices[j] + 1]]

NoCall ==
    [raised |-> "None", key_states |-> <<>>, value_states |-> <<>>,
     in_key_states |-> <<>>, in_value_states |-> <<>>, in_query_len |-> None,
     capacity_override |-> None, q_len |-> None,
     current_max_capacity |-> None, min_num |-> None, max_num |-> None,
     steps |-> None, max_capacity_prompt |-> None, indices |-> <<>>,
     selected |-> FALSE]

\* The assertion compiled away: nothing is checked.
PrefillAssertSkipped(key_in, query_len) == TRUE

\* assert key_states.shape[-2] == query_states.shape[-2], the first
\* statement of update_kv.
PrefillAssert(key_in, query_len) == Len(key_in) = query_len

\* What a call that raises leaves: the locals assigned so far, no tensors.
Raise(kind, base) == {[base EXCEPT !.raised = kind]}

\* The if / elif / else of update_kv after the schedule: the set of outcomes
\* over the scores the call may see and the ties topk may break.
Compress(s, base, key_in, value_in, q_len, current_max_capacity, sched) ==
    LET w == s.window_size
        l == q_len - w
        k_cur == SliceLast(key_in, w)
        v_cur == SliceLast(value_in, w)
        \* elif branch: current_max_capacity - window_size; else branch: the
        \* layer budget
        target == IF IsModerate(s, q_len, current_max_capacity)
                  THEN current_max_capacity - w
                  ELSE sched.max_capacity_prompt
    IN  IF q_len < w
        THEN \* the (window_size, window_size) mask does not fit the
             \* (q_len, q_len) block it is added to
             Raise("RuntimeError", base)
        ELSE IF l = 0
        THEN \* pooling of an empty score row
             Raise("RuntimeError", base)
        ELSE IF s.pooling \notin {"avgpool", "maxpool"}
        THEN Raise("ValueError", base)
        ELSE IF current_max_capacity <= w
        THEN {[base EXCEPT !.key_states = k_cur, !.value_states = v_cur]}
        ELSE LET k == Min(target, PoolLen(l, s.kernel_size))
             IN  IF k < 0
                 THEN Raise("RuntimeError", base)
                 ELSE { LET indices == SortAsc(TopKOrder(c, S))
                        IN  IF \E j \in 1..Len(indices) : indices[j] >= l
                            THEN [base EXCEPT !.raised = "RuntimeError",
                                              !.indices = indices]
                            ELSE [base EXCEPT
                                    !.indices = indices,
                                    !.selected = TRUE,
                                    !.key_states =
                                        Cat(Gather(SliceHistory(key_in, w), indices), k_cur),
                                    !.value_states =
                                        Cat(Gather(SliceHistory(value_in, w), indices), v_cur)]
                        : <<c, S>> \in
                            UNION { {<<c0, S0>> : S0 \in TopKSets(c0, k)} :
                                    c0 \in AttnCaches(s, l) } }

\* update_kv: the set of outcomes of one call.
update_kv(s, key_in, query_len, value_in, capacity_override) ==
    LET q_len == Len(key_in)
        current_max_capacity ==
            IF capacity_override # None THEN capacity_override
            ELSE s.max_capacity_prompt
        sched == Schedule(s, current_max_capacity, q_len)
        base0 == [NoCall EXCEPT !.in_key_states = key_in,
                                !.in_value_states = value_in,
                                !.in_query_len = query_len,
                                !.capacity_override = capacity_override]
        base1 == [base0 EXCEPT !.q_len = q_len,
                               !.current_max_capacity = current_max_capacity,
                               !.min_num = sched.min_num,
                               !.max_num = sched.max_num]
        base2 == [base1 EXCEPT !.steps = sched.steps,
                               !.max_capacity_prompt = sched.max_capacity_prompt]
    IN  IF ~PrefillAssert(key_in, query_len)
        THEN Raise("AssertionError", base0)
        ELSE IF sched.raised # "None"
        THEN Raise(sched.raised, base1)
        ELSE IF IsPassthrough(q_len, current_max_capacity)
        THEN {[base2 EXCEPT !.key_states = key_in, !.value_states = value_in]}
        ELSE Compress(s, base2, key_in, value_in, q_len, current_max_capacity, sched)

\* The budget of the call written back to the instance.
SelfAfterUpdateKvStoresBudget(s, current_max_capacity) ==
    [s EXCEPT !.max_capacity_prompt = current_max_capacity]

\* update_kv assigns no attribute of self.
SelfAfterUpdateKv(s, current_max_capacity) == s

\* --------------------------------------------------------------- tensors
\* The prefill's cache: the entry at position p is tagged 2p (key) and
\* 2p + 1 (value), so every entry of a tensor is told from every other.
FreshKeys(n) == [j \in 1..n |-> 2 * (j - 1)]

FreshValues(n) == [j \in 1..n |-> 2 * (j - 1) + 1]

\* ------------------------------------------------------------------ Init
Init ==
    \E a \in CtorArgs :
        /\ a.layer_idx < a.num_hidden_layers
        /\ PyramidKVCluster(a).ok
        /\ self = PyramidKVCluster(a).self
        /\ key_states = <<>>
        /\ value_states = <<>>
        /\ pc = "idle"
        /\ op = "__init__"
        /\ raised = "None"
        /\ reset_args = [window_size |-> a.window_size,
                         max_capacity_prompt |-> a.max_capacity_prompt,
                         kernel_size |-> a.kernel_size,
                         pooling |-> a.pooling, n_rep |-> a.n_rep]
        /\ ret = NoCall

\* --------------------------------------------------------------- actions
\* reset(...), between two prefills.
Reset ==
    /\ pc = "idle"
    /\ \E a \in ResetArgs :
          LET r == reset(self, a)
          IN  /\ self' = r.self
              /\ raised' = r.raised
              /\ reset_args' = IF r.raised = "None" THEN a ELSE NoArgs
    /\ op' = "reset"
    /\ UNCHANGED <<key_states, value_states, pc, ret>>

\* The host's prefill pass leaves a cache of n positions.
Prefill ==
    /\ pc = "idle"
    /\ \E n \in 0..MaxQLen :
          /\ key_states' = FreshKeys(n)
          /\ value_states' = FreshValues(n)
    /\ pc' = "prefilled"
    /\ op' = "prefill"
    /\ raised' = "None"
    /\ reset_args' = NoArgs
    /\ UNCHANGED <<self, ret>>

\* update_kv on the freshly prefilled cache; the returned tensors replace
\* it.  A call that raises returns nothing and the cache stays.
UpdateKv ==
    /\ pc = "prefilled"
    /\ \E capacity_override \in Overrides :
       \E query_len \in {Len(key_states), Len(key_states) + 1} :
       \E r \in update_kv(self, key_states, query_len, value_states, capacity_override) :
          /\ ret' = r
          /\ raised' = r.raised
          /\ self' = SelfAfterUpdateKv(self, r.current_max_capacity)
          /\ key_states' = IF r.raised = "None" THEN r.key_states ELSE key_states
          /\ value_states' = IF r.raised = "None" THEN r.value_states ELSE value_states
    /\ pc' = "compressed"
    /\ op' = "update_kv"
    /\ UNCHANGED reset_args

\* update_kv applied once more, with the same arguments, to the tensors the
\* first call returned.
UpdateKvAgain ==
    /\ pc = "compressed"
    /\ raised = "None"
    /\ \E r \in update_kv(self, key_states, Len(key_states), value_states,
                          ret.capacity_override) :
          /\ ret' = r
          /\ raised' = r.raised
          /\ self' = SelfAfterUpdateKv(self, r.current_max_capacity)
          /\ key_states' = IF r.raised = "None" THEN r.key_states ELSE key_states
          /\ value_states' = IF r.raised = "None" THEN r.value_states ELSE value_states
    /\ pc' = "recompressed"
    /\ op' = "update_kv"
    /\ UNCHANGED reset_args

\* The host drops the cache at the end of the request.
Release ==
    /\ pc \in {"prefilled", "compressed", "recompressed"}
    /\ key_states' = <<>>
    /\ value_states' = <<>>
    /\ ret' = NoCall
    /\ pc' = "idle"
    /\ op' = "release"
    /\ raised' = "None"
    /\ UNCHANGED <<self, reset_args>>

Next == Reset \/ Prefill \/ UpdateKv \/ UpdateKvAgain \/ Release

Spec == Init /\ [][Next]_vars

\* ------------------------------------------------- vocabulary of the claims
\* The last operation was an update_kv call / one that returned.
Called == op = "update_kv"

Returned == Called /\ raised = "None"

\* The call met the prefill precondition (key and query lengths agree).
WellFormed == Called /\ ret.in_query_len = Len(ret.in_key_states)

QLen == Len(ret.in_key_states)

OutLen == Len(key_states)

\* The budget in force for the call.
CMC ==
    IF ret.capacity_override # None THEN ret.capacity_override
    ELSE self.max_capacity_prompt

InPassthrough == QLen < CMC

InModerate == QLen >= CMC /\ QLen < 2 * (CMC - self.window_size)

InAggressive == QLen >= CMC /\ QLen >= 2 * (CMC - self.window_size)

\* A configuration inside the documented domain of the options.
ValidConfig ==
    /\ self.max_capacity_prompt > self.window_size
    /\ self.num_hidden_layers > 1
    /\ 0 <= self.layer_idx /\ self.layer_idx < self.num_hidden_layers
    /\ self.beta >= 1

SupportedPooling == self.pooling \in {"avgpool", "maxpool"}

\* ------------------------------------------------------------------ C1
\* C1 (as stated): in a valid configuration every call that returns gives an
\* output no longer than the governing budget (current_max_capacity in
\* PASSTHROUGH and MODERATE, the layer budget in AGGRESSIVE) and no longer
\* than the input.
C1_BudgetBound ==
    (ValidConfig /\ Returned) =>
        /\ OutLen <= QLen
        /\ OutLen <= (IF InAggressive THEN ret.max_capacity_prompt ELSE CMC)

\* C1 (amended): in a valid configuration every call that returns gives an
\* output no longer than the input, no longer than current_max_capacity in
\* PASSTHROUGH and MODERATE, and in AGGRESSIVE no longer than the layer
\* budget plus window_size when current_max_capacity > window_size, and of
\* exactly window_size entries when current_max_capacity <= window_size.
C1_BudgetBoundAmended ==
    (ValidConfig /\ Returned) =>
        /\ OutLen <= QLen
        /\ (InPassthrough \/ InModerate) => OutLen <= CMC
        /\ (InAggressive /\ CMC > self.window_size) =>
              OutLen <= ret.max_capacity_prompt + self.window_size
        /\ (InAggressive /\ CMC <= self.window_size) =>
              OutLen = self.window_size

\* An AGGRESSIVE call that dropped history and kept the layer budget plus
\* the window.
C1_Witness ==
    /\ ValidConfig /\ Returned /\ InAggressive
    /\ CMC > self.window_size
    /\ OutLen = ret.max_capacity_prompt + self.window_size
    /\ OutLen < QLen
    /\ ret.max_capacity_prompt > 0

\* ------------------------------------------------------------------ C2
\* C2: after every call that returns, in every regime, the trailing
\* window_size positions of the output keys and values are the trailing
\* window_size positions of the input, in the same order (all of the input
\* when it has fewer than window_size positions).
C2_WindowPreserved ==
    Returned =>
        LET n == Len(ret.in_key_states)
            m == Len(key_states)
            w == IF n < self.window_size THEN n ELSE self.window_size
        IN  /\ m >= w
            /\ Len(value_states) = m
            /\ \A j \in 1..w :
                  /\ key_states[m - w + j] = ret.in_key_states[n - w + j]
                  /\ value_states[m - w + j] = ret.in_value_states[n - w + j]

\* A call that dropped some history, kept some, and returned a full window.
C2_Witness ==
    /\ Returned /\ ret.selected
    /\ Len(ret.indices) > 0
    /\ OutLen < QLen
    /\ self.window_size > 1

\* ------------------------------------------------------------------ C3
\* C3: in every MODERATE or AGGRESSIVE call that selects history, the kept
\* historical positions are strictly increasing in output order (hence
\* pairwise distinct), lie in 0 .. q_len - window_size - 1, and the output
\* before the window is the input at exactly those positions.
C3_MonotoneIndices ==
    (Returned /\ ~InPassthrough /\ CMC > self.window_size) =>
        LET idx == ret.indices
            h   == Len(idx)
        IN  /\ ret.selected
            /\ OutLen = h + self.window_size
            /\ \A j \in 1..h : 0 <= idx[j] /\ idx[j] <= QLen - self.window_size - 1
            /\ \A j \in 1..h : \A k \in 1..h : j < k => idx[j] < idx[k]
            /\ \A j \in 1..h :
                  /\ key_states[j] = ret.in_key_states[idx[j] + 1]
                  /\ value_states[j] = ret.in_value_states[idx[j] + 1]

\* A call that kept at least two historical positions with a gap between
\* them.
C3_Witness ==
    /\ Returned /\ ~InPassthrough /\ CMC > self.window_size
    /\ Len(ret.indices) >= 2
    /\ ret.indices[2] > ret.indices[1] + 1

\* ------------------------------------------------------------------ C4
\* C4: in a configuration with num_hidden_layers > 1, a call that meets the
\* prefill precondition with q_len < current_max_capacity returns, and the
\* returned keys and values are its inputs entry for entry; so is the second
\* application of update_kv to what the first returned.
C4_PassthroughIdentity ==
    (WellFormed /\ self.num_hidden_layers > 1 /\ InPassthrough) =>
        /\ raised = "None"
        /\ key_states = ret.in_key_states
        /\ value_states = ret.in_value_states
        /\ ret.key_states = ret.in_key_states
        /\ ret.value_states = ret.in_value_states

\* The second application, to a tensor the first call compressed (some
\* position of the prefill is missing), of length below the budget.
C4_Witness ==
    /\ pc = "recompressed" /\ Returned /\ InPassthrough
    /\ QLen > self.window_size
    /\ \E j \in 1..QLen : ret.in_key_states[j] # 2 * (j - 1)
    /\ key_states = ret.in_key_states

\* ------------------------------------------------------------------ C5
\* C5: a reset that fails commits nothing (every attribute keeps its
\* pre-reset value), hence max_capacity_prompt > window_size holds of the
\* instance at all times, failed resets included.
C5_FailedResetAtomic ==
    /\ [](self.max_capacity_prompt > self.window_size)
    /\ [][(op' = "reset" /\ raised' # "None") => self' = self]_vars


\* ------------------------------------------------------------------ C6
\* C6: with num_hidden_layers > 1 and a supported pooling kind, every call
\* that meets the prefill precondition with current_max_capacity <=
\* window_size and q_len > window_size returns exactly the trailing
\* window_size positions of its input, whatever layer_idx and beta.
C6_WindowOnly ==
    (WellFormed /\ self.num_hidden_layers > 1 /\ SupportedPooling
        /\ CMC <= self.window_size /\ QLen > self.window_size) =>
        /\ raised = "None"
        /\ OutLen = self.window_size
        /\ Len(value_states) = self.window_size
        /\ \A j \in 1..self.window_size :
              /\ key_states[j] = ret.in_key_states[QLen - self.window_size + j]
              /\ value_states[j] = ret.in_value_states[QLen - self.window_size + j]

\* A window-only call through capacity_override on a valid configuration,
\* at a layer other than the first.
C6_Witness ==
    /\ Returned /\ ValidConfig /\ SupportedPooling
    /\ ret.capacity_override # None
    /\ CMC <= self.window_size /\ QLen > self.window_size + 1
    /\ self.window_size > 1
    /\ self.layer_idx > 0
    /\ OutLen = self.window_size

\* ------------------------------------------------------------------ C7
\* The layer budget the schedule gives the instance of layer i for the
\* budget and length of the last call.
C7_Budget(i) == Schedule([self EXCEPT !.layer_idx = i], CMC, QLen).max_capacity_prompt

C7_NonIncreasing ==
    \A i \in 0..(self.num_hidden_layers - 2) : C7_Budget(i + 1) <= C7_Budget(i)

\* C7 (as stated): in every AGGRESSIVE call (here: one that returns) with
\* num_hidden_layers > 1 and beta >= 1, for any current_max_capacity,
\* configured or overridden, the layer budget is non-increasing in layer_idx.
C7_PyramidMonotone ==
    (Returned /\ self.num_hidden_layers > 1 /\ InAggressive) => C7_NonIncreasing

\* C7 (amended): in every AGGRESSIVE call with num_hidden_layers > 1,
\* beta >= 1 and current_max_capacity > window_size the layer budget is
\* non-increasing in layer_idx.
C7_PyramidMonotoneAmended ==
    (WellFormed /\ self.num_hidden_layers > 1 /\ InAggressive
        /\ CMC > self.window_size) => C7_NonIncreasing

\* An AGGRESSIVE call over three layers whose budget really shrinks with
\* depth.
C7_Witness ==
    /\ WellFormed /\ InAggressive /\ CMC > self.window_size
    /\ self.num_hidden_layers >= 3
    /\ C7_Budget(0) > C7_Budget(1)
    /\ C7_Budget(1) > C7_Budget(2)

\* ------------------------------------------------------------------ C8
\* The schedule as the design states it (section 4.1).
C8_LayerBudget(cmc, w, beta, layers, idx, q) ==
    LET min0 == (cmc - w) \div beta
        max0 == 2 * (cmc - w) - min0
        maxn == IF max0 >= q - w THEN q - w ELSE max0
        minn == IF max0 >= q - w THEN 2 * (cmc - w) - maxn ELSE min0
        stp  == (maxn - minn) \div (layers - 1)
    IN  maxn - idx * stp

C8_ExpectedLen ==
    IF InPassthrough THEN QLen
    ELSE IF InModerate THEN CMC
    ELSE LET b == C8_LayerBudget(CMC, self.window_size, self.beta,
                                 self.num_hidden_layers, self.layer_idx, QLen)
             h == QLen - self.window_size
         IN  (IF b <= h THEN b ELSE h) + self.window_size

\* The schedule of the code on window_size=64, num_hidden_layers=4, beta=20
\* at the given layer, budget 320, q_len 600.
C8_Scenario(i) ==
    Schedule([self EXCEPT !.window_size = 64, !.num_hidden_layers = 4,
                          !.beta = 20, !.layer_idx = i], 320, 600)

\* C8: in a valid configuration with a supported pooling kind and
\* current_max_capacity > window_size, a call that meets the prefill
\* precondition returns q_len entries in PASSTHROUGH, current_max_capacity
\* entries in MODERATE whatever the layer, and min(layer budget, q_len -
\* window_size) + window_size entries in AGGRESSIVE; in the worked scenario
\* min_num = 12, max_num = 500, steps = 162, and the lengths are 564 at
\* layer 0 and 78 at layer 3.
C8_OutputLength ==
    /\ (WellFormed /\ ValidConfig /\ SupportedPooling /\ CMC > self.window_size) =>
          /\ raised = "None"
          /\ OutLen = C8_ExpectedLen
          /\ Len(value_states) = C8_ExpectedLen
    /\ C8_Scenario(0).min_num = 12
    /\ C8_Scenario(0).max_num = 500
    /\ C8_Scenario(0).steps = 162
    /\ Min(C8_Scenario(0).max_capacity_prompt, PoolLen(600 - 64, 5)) + 64 = 564
    /\ Min(C8_Scenario(3).max_capacity_prompt, PoolLen(600 - 64, 5)) + 64 = 78

\* An AGGRESSIVE call at a deeper layer with a positive step, whose output
\* is shorter than the input and than layer 0's.
C8_Witness ==
    /\ Returned /\ ValidConfig /\ InAggressive /\ CMC > self.window_size
    /\ self.layer_idx > 0 /\ ret.steps > 0
    /\ OutLen = ret.max_capacity_prompt + self.window_size
    /\ OutLen < ret.max_num + self.window_size
    /\ OutLen < QLen

\* ------------------------------------------------------------------ C9
C9_Step ==
    /\ self'.layer_idx = self.layer_idx
    /\ self'.num_hidden_layers = self.num_hidden_layers
    /\ self'.beta = self.beta
    /\ op' # "reset" => self' = self
    /\ (op' = "reset" /\ raised' = "None") =>
          /\ self'.window_size = reset_args'.window_size
          /\ self'.max_capacity_prompt = reset_args'.max_capacity_prompt
          /\ self'.kernel_size = reset_args'.kernel_size
          /\ self'.pooling = reset_args'.pooling
          /\ self'.n_rep = reset_args'.n_rep

C9_State ==
    /\ op = "__init__" =>
          /\ self.window_size = reset_args.window_size
          /\ self.max_capacity_prompt = reset_args.max_capacity_prompt
          /\ self.kernel_size = reset_args.kernel_size
          /\ self.pooling = reset_args.pooling
          /\ self.n_rep = reset_args.n_rep
    /\ (WellFormed /\ ret.capacity_override = None) =>
          ret.current_max_capacity = self.max_capacity_prompt
    /\ (WellFormed /\ ret.capacity_override # None) =>
          ret.current_max_capacity = ret.capacity_override

\* C9: no step changes layer_idx, num_hidden_layers or beta; only reset
\* changes the instance, and a successful reset leaves window_size,
\* max_capacity_prompt, kernel_size, pooling and n_rep at its arguments
\* (construction at its own); update_kv changes nothing, and a call without
\* capacity_override is governed by the configured max_capacity_prompt.
C9_ConfigFrame == []C9_State /\ [][C9_Step]_vars

\* A compressing call under an override different from the configured
\* budget, which the instance still holds afterwards.
C9_Witness ==
    /\ Returned /\ ret.selected
    /\ ret.capacity_override # None
    /\ ret.capacity_override # self.max_capacity_prompt
    /\ self.max_capacity_prompt > self.window_size

\* ----------------------------------------------------------------- C10
\* C10: with num_hidden_layers == 1 only AGGRESSIVE calls fail with the
\* division by zero; PASSTHROUGH and MODERATE calls complete.
C10_SingleLayerConfined ==
    (WellFormed /\ self.num_hidden_layers = 1) =>
        /\ raised = "ZeroDivisionError" => InAggressive
        /\ (InPassthrough \/ InModerate) => raised = "None"


\* ----------------------------------------------------------------- C11
\* C11: a non-PASSTHROUGH call with current_max_capacity <= window_size
\* skips scoring and pooling and only truncates the cache, whatever the
\* pooling kind; an unsupported pooling kind fails only calls that select
\* history (never a PASSTHROUGH or window-only call).
C11_WindowOnlySkipsPooling ==
    /\ (WellFormed /\ self.num_hidden_layers > 1 /\ ~InPassthrough
          /\ CMC <= self.window_size /\ QLen > self.window_size) =>
          /\ raised = "None"
          /\ OutLen = self.window_size
          /\ \A j \in 1..self.window_size :
                key_states[j] = ret.in_key_states[QLen - self.window_size + j]
    /\ (Called /\ raised = "ValueError") =>
          /\ ~InPassthrough
          /\ CMC > self.window_size


\* ----------------------------------------------------------------- C12
C12_State ==
    (Called /\ ret.in_query_len # Len(ret.in_key_states)) =>
        /\ raised = "AssertionError"
        /\ ret.key_states = <<>> /\ ret.value_states = <<>>
        /\ key_states = ret.in_key_states
        /\ value_states = ret.in_value_states
        /\ ret.q_len = None /\ ret.current_max_capacity = None

C12_Step ==
    (op' = "update_kv" /\ ret'.in_query_len # Len(ret'.in_key_states)) =>
        /\ self' = self
        /\ key_states' = key_states
        /\ value_states' = value_states

\* C12: a call whose key and query sequence lengths differ fails with the
\* assertion in every regime and every configuration, before q_len and the
\* budget are looked at; it returns no tensors, and the instance and the
\* caller's cache are as before the call.
C12_PrefillPrecondition == []C12_State /\ [][C12_Step]_vars

\* A mismatched call whose key length is below the budget (it would be a
\* PASSTHROUGH), on a single-layer instance.
C12_Witness ==
    /\ Called /\ ret.in_query_len # Len(ret.in_key_states)
    /\ raised = "AssertionError"
    /\ Len(ret.in_key_states) > 0
    /\ Len(ret.in_key_states) < CMC
    /\ self.num_hidden_layers = 1


\* ----------------------------------------------------------------- C13
\* The schedule took the clamped branch (max_num cut to the history).
C13_Clamped ==
    2 * (CMC - self.window_size) - ((CMC - self.window_size) \div self.beta)
        >= QLen - self.window_size

\* C13: in every call that meets the prefill precondition with
\* num_hidden_layers > 1, current_max_capacity > window_size and q_len >=
\* current_max_capacity, in the clamped and in the unclamped branch,
\* min_num + max_num = 2 * (current_max_capacity - window_size) and
\* 0 <= min_num <= layer budget <= max_num <= q_len - window_size; the
\* number of positions topk takes is the target itself (the budget in
\* AGGRESSIVE, current_max_capacity - window_size in MODERATE), never
\* negative and never more than the history.
C13_ScheduleBounds ==
    (WellFormed /\ self.num_hidden_layers > 1 /\ CMC > self.window_size
        /\ QLen >= CMC) =>
        /\ raised # "ZeroDivisionError"
        /\ ret.min_num + ret.max_num = 2 * (CMC - self.window_size)
        /\ 0 <= ret.min_num
        /\ ret.min_num <= ret.max_capacity_prompt
        /\ ret.max_capacity_prompt <= ret.max_num
        /\ ret.max_num <= QLen - self.window_size
        /\ C13_Clamped => ret.max_num = QLen - self.window_size
        /\ ~C13_Clamped =>
              ret.min_num = (CMC - self.window_size) \div self.beta
        /\ Returned =>
              /\ ret.selected
              /\ Len(ret.indices) =
                    (IF InModerate THEN CMC - self.window_size
                     ELSE ret.max_capacity_prompt)
              /\ Len(ret.indices) >= 0
              /\ Len(ret.indices) <= QLen - self.window_size

\* An unclamped schedule over three layers at the middle layer, the budget
\* strictly between min_num and max_num and below the history.
C13_Witness ==
    /\ Returned /\ InAggressive /\ CMC > self.window_size
    /\ self.num_hidden_layers = 3 /\ self.layer_idx = 1
    /\ ~C13_Clamped
    /\ ret.min_num < ret.max_capacity_prompt
    /\ ret.max_capacity_prompt < ret.max_num
    /\ ret.max_num < QLen - self.window_size
    /\ Len(ret.indices) = ret.max_capacity_prompt

====
